---- MODULE Spec2Model ----
(***************************************************************************)
(* ListView (src/src/ListView/index.ts): a virtualised list.  The model    *)
(* keeps the data buffer (sourceList), the slot nodes that follow the      *)
(* runway in container.children, the runway's transform, the cached        *)
(* sizes, and the parts of the DOM the code reads (container.clientHeight, *)
(* container.scrollTop, runway.clientHeight).  Every public method and     *)
(* every listener is one action; an action whose render pass raises a      *)
(* TypeError keeps the writes made before the raise.                       *)
(*                                                                         *)
(* An optional value (undefined in the source) is a sequence of length 0   *)
(* or 1: << >> is undefined, <<v>> is the value v.                         *)
(***************************************************************************)
EXTENDS Integers, Sequences, FiniteSets, TLC

VARIABLES
  options,      \* this.options: [itemHeight, fixedSize]
  sourceList,   \* this.sourceList
  slots,        \* container.children[1..]: the nodes after the runway
  runway,       \* this.runway: [clientHeight, y] (y: the transform's y)
  cachedValue,  \* this.cachedValue: [runwayHeight, virtualContainerHeight]
  clientHeight, \* this.container.clientHeight
  scrollTop,    \* this.container.scrollTop
  listening,    \* invoke() has attached the listeners
  last          \* the operation that ran last and what it did

vars == <<options, sourceList, slots, runway, cachedValue, clientHeight,
          scrollTop, listening, last>>

----------------------------------------------------------------------------
(* Bounds of the model *)

\* the data buffer holds at most MaxLen items
MaxLen == 2

\* the data items: numbers, of which 0 is falsy and 1 is truthy
Data == {0, 1}
\* the heights the layout gives the container
Heights == {24, 40}
\* the scroll positions the surface reports
ScrollOffsets == {-5, 0, 10, 24}
\* the heights of the runway element
RunwayHeights == {1}
\* the index arguments tried by the callers of insertData and deleteData
Indexes == -1 .. MaxLen + 1
\* the count arguments tried by deleteData's callers
Counts == 0 .. MaxLen + 1
\* insertData's index argument: omitted, or one of Indexes
OptIndexes == {<< >>} \cup {<<i>> : i \in Indexes}
\* deleteData's count argument: omitted, or one of Counts
OptCounts == {<< >>} \cup {<<c>> : c \in Counts}
\* the logical indexes tried by renderItem's callers
ItemIndexes == 0 .. MaxLen - 1
\* the data renderItem's callers pass (renderItem hands it on unread)
ItemData == {1}

SeqsUpTo(S, n) == UNION {[1 .. k -> S] : k \in 0 .. n}

\* the lists insertData is called with
InsertLists == SeqsUpTo(Data, 2)
\* the lists updateData is called with
UpdateLists == SeqsUpTo(Data, MaxLen)

----------------------------------------------------------------------------
(* Program constants *)

DSURPLUS_COUNT == 0
RUNWAY_COUNT == 1
DefaultItemHeight == 24
DefaultCount == 1

----------------------------------------------------------------------------
(* JavaScript built-ins, as the code uses them *)

Min(a, b) == IF a < b THEN a ELSE b
Max(a, b) == IF a > b THEN a ELSE b

\* Math.floor(a / b), b # 0
MathFloorDiv(a, b) == a \div b
\* Math.ceil(a / b), b # 0
MathCeilDiv(a, b) == -((-a) \div b)
\* a % b, b # 0: the remainder takes the sign of the dividend and the
\* magnitude of the divisor
JsRem(a, b) ==
  LET m == IF b < 0 THEN -b ELSE b
  IN  IF a >= 0 THEN a % m ELSE -((-a) % m)
\* !!d for a number
Truthy(d) == d # 0

\* the relative index of slice and splice: negative counts from the end
RelIndex(i, n) == IF i < 0 THEN Max(n + i, 0) ELSE Min(i, n)

\* Array.prototype.slice(start, end)
JsSlice(list, start, end) ==
  LET s == RelIndex(start, Len(list))
      e == RelIndex(end, Len(list))
  IN  SubSeq(list, s + 1, e)

\* Array.prototype.splice(start, deleteCount, ...items): the array afterwards
SpliceResult(list, start, deleteCount, items) ==
  LET s == RelIndex(start, Len(list))
      d == Min(Max(deleteCount, 0), Len(list) - s)
  IN  SubSeq(list, 1, s) \o items \o SubSeq(list, s + d + 1, Len(list))

\* Array.prototype.splice(start, deleteCount, ...items): the removed items
SpliceDeleted(list, start, deleteCount) ==
  LET s == RelIndex(start, Len(list))
      d == Min(Max(deleteCount, 0), Len(list) - s)
  IN  SubSeq(list, s + 1, s + d)

----------------------------------------------------------------------------
(* Getters and helpers of ListView *)

\* virtualItemCount: the value returned (it also caches clientHeight)
virtualItemCount(h, itemHeight) == MathCeilDiv(h, itemHeight) + DSURPLUS_COUNT

\* actualContainerHeight
actualContainerHeight(list, itemHeight) == Len(list) * itemHeight

\* createHandler(): a fresh node, no transform, no dataset.index
NewSlot == [y |-> << >>, tag |-> << >>]

NewSlots(n) == [k \in 1 .. Max(n, 0) |-> NewSlot]

\* _stretchList with the runway's own height left out
StretchYWhole(list, itemHeight, runwayClientHeight) ==
  actualContainerHeight(list, itemHeight)

\* _stretchList: the y of the runway's transform
StretchY(list, itemHeight, runwayClientHeight) ==
  actualContainerHeight(list, itemHeight) - runwayClientHeight

\* insertData's position with an out-of-range index clamped to the front
InsertPositionFront(list, index) ==
  LET maxIndex == Len(list)
  IN  IF index = << >> \/ index[1] < 0 \/ index[1] > maxIndex
      THEN 0
      ELSE index[1]

\* the position insertData splices at
InsertPosition(list, index) ==
  LET maxIndex == Len(list)
  IN  IF index = << >> \/ index[1] < 0 \/ index[1] > maxIndex
      THEN maxIndex
      ELSE index[1]

\* insertData: the buffer after the splice
InsertedList(list, items, index) ==
  SpliceResult(list, InsertPosition(list, index), 0, items)

\* deleteData: the count in effect (count = 1 when omitted)
DeleteCount(count) == IF count = << >> THEN DefaultCount ELSE count[1]

\* _renderList's loop over index = 0 .. virtualItemCount - 1.  It raises a
\* TypeError at the first index whose node (children[index + RUNWAY_COUNT])
\* does not exist; the nodes before it have been positioned and tagged.
\* calls: the invocations of renderHandler, in order, each with the child
\* passed as node, the data and the index.
RenderLoop(ss, virtualList, vic, top, offset, startIndex, itemHeight) ==
  LET done       == Min(vic, Len(ss))
      HasData(i) == i + 1 <= Len(virtualList) /\ Truthy(virtualList[i + 1])
      Node(k)    ==
        LET i == k - 1
            y == top + i * itemHeight - offset
        IN  IF k > done THEN ss[k]
            ELSE IF HasData(i)
                 THEN [y |-> <<y>>, tag |-> <<i + startIndex>>]
                 ELSE [ss[k] EXCEPT !.y = <<y>>]
      Call(k)    == [node  |-> <<k - 1 + RUNWAY_COUNT>>,
                     data  |-> virtualList[k],
                     index |-> k - 1 + startIndex]
      bound      == SelectSeq([k \in 1 .. done |-> k],
                              LAMBDA k : HasData(k - 1))
  IN  [slots |-> [k \in 1 .. Len(ss) |-> Node(k)],
       calls |-> [j \in 1 .. Len(bound) |-> Call(bound[j])],
       threw |-> vic > Len(ss)]

\* _renderList creating the nodes its loop finds missing
RenderListGrowing(ss, list, h, top, itemHeight) ==
  LET vic        == virtualItemCount(h, itemHeight)
      startIndex == MathFloorDiv(top, itemHeight)
  IN  RenderLoop(ss \o NewSlots(vic - Len(ss)),
                 JsSlice(list, startIndex, startIndex + vic), vic, top,
                 JsRem(top, itemHeight), startIndex, itemHeight)

\* _renderList
RenderList(ss, list, h, top, itemHeight) ==
  LET vic        == virtualItemCount(h, itemHeight)
      startIndex == MathFloorDiv(top, itemHeight)
  IN  RenderLoop(ss, JsSlice(list, startIndex, startIndex + vic), vic, top,
                 JsRem(top, itemHeight), startIndex, itemHeight)

----------------------------------------------------------------------------
(* The record of the last operation: its name, whether a render pass ran   *)
(* in it, whether it raised, the invocations of renderHandler it made, the *)
(* value it returned, whether it was insertData([x], 0), the calls it made *)
(* that touch the buffer, the runway or the slots (in the order of the     *)
(* code), the numbers of nodes it created and removed, the number of slots *)
(* it found and, for the operations other than insertData, deleteData and  *)
(* updateData, the runway's transform it found.                            *)

NoOp == [op |-> "construct", rendered |-> FALSE, threw |-> FALSE,
         calls |-> << >>, returned |-> << >>, frontInsert |-> FALSE,
         steps |-> << >>, created |-> 0, removed |-> 0,
         pool |-> 0, runwayY |-> << >>]

\* the calls of insertData, in the order of its statements
InsertDataSteps == <<"splice", "_stretchList", "_renderList">>
\* the calls of deleteData
DeleteDataSteps == <<"splice", "_stretchList", "_recycleList", "_renderList">>
\* the calls of updateData
UpdateDataSteps(fixedSize) ==
  <<"push">> \o (IF fixedSize THEN << >> ELSE <<"_measureSize">>)
    \o <<"removeChild", "createHandler", "_stretchList", "_renderList">>
\* the calls of onScroll
OnScrollSteps(outOfRange) == IF outOfRange THEN << >> ELSE <<"_renderList">>
\* the calls of onResize
OnResizeSteps(cachedHeight, actualHeight) ==
  (IF cachedHeight < actualHeight THEN <<"createHandler">> ELSE << >>)
    \o (IF cachedHeight > actualHeight THEN <<"_recycleList">> ELSE << >>)
    \o <<"_renderList">>

Init ==
  /\ options = [itemHeight |-> DefaultItemHeight, fixedSize |-> FALSE]
  /\ sourceList = << >>
  /\ slots = << >>
  /\ runway \in [clientHeight : RunwayHeights, y : {<< >>}]
  /\ cachedValue = [runwayHeight |-> 0, virtualContainerHeight |-> 0]
  /\ clientHeight \in Heights
  /\ scrollTop = 0
  /\ listening = FALSE
  /\ last = NoOp

----------------------------------------------------------------------------
(* Operations *)

\* the record of an operation that starts now: the number of slots it finds
Found == [NoOp EXCEPT !.pool = Len(slots)]
\* the same with the runway's transform it finds
FoundAll == [Found EXCEPT !.runwayY = runway.y]

\* _measureSize
MeasureSize(cv) == [cv EXCEPT !.runwayHeight = runway.clientHeight]

\* the cache write of the virtualItemCount getter
CacheHeight(cv) == [cv EXCEPT !.virtualContainerHeight = clientHeight]

\* _stretchList
StretchList(list) ==
  [runway EXCEPT !.y = <<StretchY(list, options.itemHeight,
                                  runway.clientHeight)>>]

\* invoke(): attaches the listeners, then _measureSize
Invoke ==
  /\ ~listening
  /\ listening' = TRUE
  /\ cachedValue' = MeasureSize(cachedValue)
  /\ last' = [FoundAll EXCEPT !.op = "invoke", !.steps = <<"_measureSize">>]
  /\ UNCHANGED <<options, sourceList, slots, runway, clientHeight, scrollTop>>

\* the layout gives the container another height (no code runs)
Layout(h) ==
  /\ h # clientHeight
  /\ clientHeight' = h
  /\ last' = [FoundAll EXCEPT !.op = "layout"]
  /\ UNCHANGED <<options, sourceList, slots, runway, cachedValue, scrollTop,
                 listening>>

\* insertData(dataList, index?)
InsertData(items, index) ==
  /\ Len(sourceList) + Len(items) <= MaxLen
  /\ \E list \in {InsertedList(sourceList, items, index)} :
     \E r \in {RenderList(slots, list, clientHeight, scrollTop,
                          options.itemHeight)} :
       /\ sourceList' = list
       /\ runway' = StretchList(list)
       /\ slots' = r.slots
       /\ cachedValue' = CacheHeight(cachedValue)
       /\ last' = [Found EXCEPT !.op = "insertData", !.rendered = TRUE,
                               !.threw = r.threw, !.calls = r.calls,
                               !.steps = InsertDataSteps,
                               !.frontInsert = (Len(items) = 1
                                                /\ index = <<0>>)]
  /\ UNCHANGED <<options, clientHeight, scrollTop, listening>>

\* deleteData(index, count = 1): the value is returned only when the render
\* pass that ends the method does not raise
DeleteData(index, count) ==
  LET c == DeleteCount(count)
  IN  /\ \E list \in {SpliceResult(sourceList, index, c, << >>)} :
          \E r \in {RenderList(slots, list, clientHeight, scrollTop,
                               options.itemHeight)} :
            /\ sourceList' = list
            /\ runway' = StretchList(list)
            /\ slots' = r.slots
            /\ cachedValue' = CacheHeight(cachedValue)
            /\ last' = [Found EXCEPT
                          !.op = "deleteData", !.rendered = TRUE,
                          !.threw = r.threw, !.calls = r.calls,
                          !.steps = DeleteDataSteps,
                          !.returned =
                             IF r.threw THEN << >>
                             ELSE <<SpliceDeleted(sourceList, index, c)>>]
      /\ UNCHANGED <<options, clientHeight, scrollTop, listening>>

\* updateData's DOM update: the loop removes children[index] for
\* index = children.length - 1 down to RUNWAY_COUNT + 1
KeptSlots(ss) == SubSeq(ss, 1, Min(RUNWAY_COUNT, Len(ss)))

\* updateData(dataList)
UpdateData(items) ==
  LET vic == virtualItemCount(clientHeight, options.itemHeight)
      top == IF Len(items) <= vic THEN 0 ELSE scrollTop
  IN  /\ \E r \in {RenderList(KeptSlots(slots) \o NewSlots(vic), items,
                              clientHeight, top, options.itemHeight)} :
            /\ slots' = r.slots
            /\ last' = [Found EXCEPT
                          !.op = "updateData", !.rendered = TRUE,
                          !.threw = r.threw, !.calls = r.calls,
                          !.steps = UpdateDataSteps(options.fixedSize),
                          !.created = Max(vic, 0),
                          !.removed = Len(slots) - Len(KeptSlots(slots))]
      /\ sourceList' = items
      /\ cachedValue' =
           CacheHeight(IF options.fixedSize THEN cachedValue
                       ELSE MeasureSize(cachedValue))
      /\ scrollTop' = top
      /\ runway' = StretchList(items)
      /\ UNCHANGED <<options, clientHeight, listening>>

\* renderItem: nodeIndex + RUNWAY_COUNT, which is both the child taken as
\* node and the index passed to renderHandler
RenderItemChild(index, top, itemHeight) ==
  LET startIndex == MathFloorDiv(top, itemHeight)
      nodeIndex  == index - startIndex
  IN  nodeIndex + RUNWAY_COUNT

\* renderItem(data, index): the node is children[nodeIndex + RUNWAY_COUNT],
\* undefined when there is no such child; child 0 is the runway
RenderItem(data, index) ==
  LET child == RenderItemChild(index, scrollTop, options.itemHeight)
      node  == IF child >= 0 /\ child <= Len(slots) THEN <<child>> ELSE << >>
  IN  /\ last' = [FoundAll EXCEPT !.op = "renderItem",
                              !.calls = <<[node |-> node, data |-> data,
                                           index |-> child]>>]
      /\ UNCHANGED <<options, sourceList, slots, runway, cachedValue,
                     clientHeight, scrollTop, listening>>

\* onResize: the number of nodes created when the cached height is below
\* the actual one (none when the number is not positive)
ResizeDeficit(cachedHeight, actualHeight, itemHeight, children) ==
  IF cachedHeight < actualHeight
  THEN MathCeilDiv(actualHeight, itemHeight) + DSURPLUS_COUNT
         - (children - RUNWAY_COUNT)
  ELSE 0

\* onResize()
OnResize ==
  LET count == ResizeDeficit(cachedValue.virtualContainerHeight, clientHeight,
                             options.itemHeight, Len(slots) + RUNWAY_COUNT)
  IN  /\ \E r \in {RenderList(slots \o NewSlots(count), sourceList,
                              clientHeight, scrollTop, options.itemHeight)} :
            /\ slots' = r.slots
            /\ last' = [FoundAll EXCEPT
                          !.op = "onResize", !.rendered = TRUE,
                          !.threw = r.threw, !.calls = r.calls,
                          !.steps =
                             OnResizeSteps(cachedValue.virtualContainerHeight,
                                           clientHeight),
                          !.created = Max(count, 0)]
      /\ cachedValue' = CacheHeight(cachedValue)
      /\ UNCHANGED <<options, sourceList, runway, clientHeight, scrollTop,
                     listening>>

\* doResize()
DoResize == OnResize

\* the window's resize event; the listener is attached unless fixedSize
ResizeSignal ==
  /\ listening
  /\ ~options.fixedSize
  /\ OnResize

\* onScroll's guard without the test for a negative position
ScrollOutOfRangeAbove(top, cv, list, itemHeight) ==
  top + cv.virtualContainerHeight > actualContainerHeight(list, itemHeight)

\* onScroll's guard: the event is out of range
ScrollOutOfRange(top, cv, list, itemHeight) ==
  \/ top < 0
  \/ top + cv.virtualContainerHeight > actualContainerHeight(list, itemHeight)

\* onScroll stretching the list before it looks at the position
ScrollSignalRestretch(top) ==
  /\ listening
  /\ scrollTop' = top
  /\ runway' = StretchList(sourceList)
  /\ IF ScrollOutOfRange(top, cachedValue, sourceList, options.itemHeight)
     THEN /\ last' = [FoundAll EXCEPT !.op = "scroll"]
          /\ UNCHANGED <<slots, cachedValue>>
     ELSE \E r \in {RenderList(slots, sourceList, clientHeight, top,
                               options.itemHeight)} :
            /\ slots' = r.slots
            /\ cachedValue' = CacheHeight(cachedValue)
            /\ last' = [FoundAll EXCEPT !.op = "scroll", !.rendered = TRUE,
                                    !.threw = r.threw, !.calls = r.calls,
                                    !.steps = OnScrollSteps(FALSE)]
  /\ UNCHANGED <<options, sourceList, clientHeight, listening>>

\* the container's scroll event at position top: onScroll
ScrollSignal(top) ==
  /\ listening
  /\ scrollTop' = top
  /\ IF ScrollOutOfRange(top, cachedValue, sourceList, options.itemHeight)
     THEN /\ last' = [FoundAll EXCEPT !.op = "scroll"]
          /\ UNCHANGED <<slots, cachedValue>>
     ELSE \E r \in {RenderList(slots, sourceList, clientHeight, top,
                               options.itemHeight)} :
            /\ slots' = r.slots
            /\ cachedValue' = CacheHeight(cachedValue)
            /\ last' = [FoundAll EXCEPT !.op = "scroll", !.rendered = TRUE,
                                    !.threw = r.threw, !.calls = r.calls,
                                    !.steps = OnScrollSteps(FALSE)]
  /\ UNCHANGED <<options, sourceList, runway, clientHeight, listening>>

\* The host starts the view (invoke) and then uses it.
Next ==
  \/ Invoke
  \/ listening /\ \E h \in Heights : Layout(h)
  \/ listening /\ \E items \in InsertLists, index \in OptIndexes :
                    InsertData(items, index)
  \/ listening /\ \E index \in Indexes, count \in OptCounts :
                    DeleteData(index, count)
  \/ listening /\ \E items \in UpdateLists : UpdateData(items)
  \/ listening /\ \E data \in ItemData, index \in ItemIndexes :
                    RenderItem(data, index)
  \/ listening /\ DoResize
  \/ ResizeSignal
  \/ \E top \in ScrollOffsets : ScrollSignal(top)

Spec == Init /\ [][Next]_vars

----------------------------------------------------------------------------
(* The life cycle: dispose and the click listener *)

\* the function invoke() registers for an event: this.onScroll.bind(this),
\* a new function object
RegisteredListener == "bound"
\* the function dispose() asks to remove: this.onScroll, the method itself
RemovedListener == "method"

\* removeEventListener: detaches only the function object that was added
RemoveEventListener(attached, registered, removed) ==
  attached /\ registered # removed

\* dispose(): clears the event bus, asks to remove the three listeners,
\* disposes the scrollbar and appends the container (already the root's
\* child) to the root again.  It touches neither the children of the
\* container nor sourceList.
Dispose ==
  /\ listening' = RemoveEventListener(listening, RegisteredListener,
                                      RemovedListener)
  /\ last' = [FoundAll EXCEPT !.op = "dispose"]
  /\ UNCHANGED <<options, sourceList, slots, runway, cachedValue,
                 clientHeight, scrollTop>>

\* the container's click event: onClick calls emit("click", event)
ClickSignal ==
  /\ listening
  /\ last' = [FoundAll EXCEPT !.op = "click", !.steps = <<"emit">>]
  /\ UNCHANGED <<options, sourceList, slots, runway, cachedValue,
                 clientHeight, scrollTop, listening>>

NextLife ==
  \/ Next
  \/ listening /\ Dispose
  \/ ClickSignal

SpecLife == Init /\ [][NextLife]_vars

----------------------------------------------------------------------------
(* The configuration: the options given to the constructor and to          *)
(* updateOptions                                                           *)

\* the item heights the host configures
ItemHeights == {-24, 24}
\* the constructor's itemHeight option: omitted, or one of ItemHeights
OptItemHeights == {<< >>} \cup {<<h>> : h \in ItemHeights}

\* the constructor: the defaults overridden by the options given
ConstructedOptions(itemHeight) ==
  [itemHeight |-> IF itemHeight = << >> THEN DefaultItemHeight
                  ELSE itemHeight[1],
   fixedSize  |-> FALSE]

InitConfig ==
  /\ options \in {ConstructedOptions(h) : h \in OptItemHeights}
  /\ sourceList = << >>
  /\ slots = << >>
  /\ runway \in [clientHeight : RunwayHeights, y : {<< >>}]
  /\ cachedValue = [runwayHeight |-> 0, virtualContainerHeight |-> 0]
  /\ clientHeight \in Heights
  /\ scrollTop = 0
  /\ listening = FALSE
  /\ last = NoOp

\* updateOptions(options): replaces this.options
UpdateOptions(newOptions) ==
  /\ newOptions # options
  /\ options' = newOptions
  /\ last' = [FoundAll EXCEPT !.op = "updateOptions"]
  /\ UNCHANGED <<sourceList, slots, runway, cachedValue, clientHeight,
                 scrollTop, listening>>

\* The host reconfigures the view once it has started it, before it loads
\* any data.
NextConfig ==
  \/ Next
  \/ last.op = "invoke" /\ \E h \in ItemHeights :
                             UpdateOptions([options EXCEPT !.itemHeight = h])

SpecConfig == InitConfig /\ [][NextConfig]_vars

----------------------------------------------------------------------------
(* What the claims speak of *)

\* ceil(viewportHeight / itemHeight) + overscanCount for the current viewport
VisibleCount == virtualItemCount(clientHeight, options.itemHeight)

\* the logical indexes tagged on the slots (dataset.index)
TaggedIndexes ==
  {slots[k].tag[1] : k \in {j \in 1 .. Len(slots) : slots[j].tag # << >>}}

\* the logical indexes the last operation passed to renderHandler
CalledIndexes == {last.calls[j].index : j \in 1 .. Len(last.calls)}

\* floor(scrollOffset / itemHeight)
WindowStart == MathFloorDiv(scrollTop, options.itemHeight)

\* [WindowStart, WindowStart + |SlotPool|) intersected with [0, N)
WindowIndexes ==
  {i \in WindowStart .. WindowStart + Len(slots) - 1 :
     0 <= i /\ i < Len(sourceList)}

Mutations == {"insertData", "deleteData", "updateData"}

----------------------------------------------------------------------------
(* Claims *)

\* C1: after a render pass at a scroll offset within
\* [0, N * itemHeight - viewportHeight], the data indexes bound to slots
\* (tagged on a slot, passed to renderHandler) are exactly
\* [floor(offset / itemHeight), floor(offset / itemHeight) + |SlotPool|)
\* intersected with [0, N), whatever the items' values.
C1_BoundWindow ==
  ( /\ last.rendered
    /\ ~last.threw
    /\ 0 <= scrollTop
    /\ scrollTop <= Len(sourceList) * options.itemHeight - clientHeight )
  => /\ CalledIndexes = WindowIndexes
     /\ TaggedIndexes = WindowIndexes

\* C2: no operation issued after construction and invoke raises an error.
C2_NoThrow == listening => ~last.threw

\* C3: after every onResize / doResize that completes, the pool holds exactly
\* ceil(viewportHeight / itemHeight) + overscanCount slots.
C3_PoolAfterResize ==
  (last.op = "onResize" /\ ~last.threw) => Len(slots) = VisibleCount

\* C4: after every updateData, the first and the later ones, the pool holds
\* exactly ceil(viewportHeight / itemHeight) + overscanCount slots.
C4_PoolAfterUpdate == last.op = "updateData" => Len(slots) = VisibleCount

\* C5: after insertData, deleteData or updateData, the runway's translation
\* plus its own height equals DataBuffer.length * itemHeight.
C5_Stretch ==
  last.op \in Mutations =>
    /\ runway.y # << >>
    /\ runway.y[1] + runway.clientHeight
         = Len(sourceList) * options.itemHeight

\* C5 witness: a mutation has run, its render pass raised, and the buffer
\* is not empty.
C5_Witness ==
  /\ last.op = "deleteData"
  /\ last.threw
  /\ Len(sourceList) > 0
  /\ runway.y # << >>

\* C6 as stated: a scroll signal at an offset < 0, or with
\* offset + (the container's current height) > N * itemHeight, is ignored:
\* no render pass, no renderHandler call, every slot as before.
C6_IgnoredByCurrentHeight ==
  [][ ( /\ last'.op = "scroll"
        /\ \/ scrollTop' < 0
           \/ scrollTop' + clientHeight
                > Len(sourceList) * options.itemHeight )
      => ( /\ slots' = slots
           /\ ~last'.rendered
           /\ last'.calls = << >> ) ]_vars

\* C6 amended: a scroll signal at an offset < 0, or with
\* offset + (the height cached by the last read of virtualItemCount)
\* > N * itemHeight, is ignored: no render pass, no renderHandler call,
\* every slot as before.
C6_IgnoredByCachedHeight ==
  [][ ( /\ last'.op = "scroll"
        /\ \/ scrollTop' < 0
           \/ scrollTop' + cachedValue.virtualContainerHeight
                > Len(sourceList) * options.itemHeight )
      => ( /\ slots' = slots
           /\ ~last'.rendered
           /\ last'.calls = << >> ) ]_vars

\* C6 witness: a scroll signal that overshoots the data has been ignored
\* while slots were tagged.
C6_Witness ==
  /\ last.op = "scroll"
  /\ ~last.rendered
  /\ scrollTop >= 0
  /\ scrollTop + cachedValue.virtualContainerHeight
       > Len(sourceList) * options.itemHeight
  /\ TaggedIndexes # {}

\* C7: a deleteData(index, count) that returns removes exactly the items at
\* [index, index + count) intersected with [0, N) and returns them in order;
\* with index < 0 or index >= N it returns an empty list and leaves the
\* buffer as it was.
C7_DeleteRange ==
  [][ (last'.op = "deleteData" /\ ~last'.threw) =>
        \A index \in Indexes, count \in OptCounts :
          DeleteData(index, count) =>
            LET N  == Len(sourceList)
                hi == Min(index + Max(DeleteCount(count), 0), N)
            IN  IF index < 0 \/ index >= N
                THEN /\ last'.returned = << << >> >>
                     /\ sourceList' = sourceList
                ELSE /\ last'.returned = <<SubSeq(sourceList, index + 1, hi)>>
                     /\ sourceList' = SubSeq(sourceList, 1, index)
                                        \o SubSeq(sourceList, hi + 1, N) ]_vars

\* C8: insertData(items, index) on a buffer B of length N yields
\* B[0..p) ++ items ++ B[p..N), p = index when 0 <= index <= N and p = N
\* when index is omitted, negative or greater than N: so it is for the
\* buffer of every reachable state and every argument.
C8_InsertSplice ==
  \A items \in InsertLists, index \in OptIndexes :
    LET N == Len(sourceList)
        p == IF index # << >> /\ 0 <= index[1] /\ index[1] <= N
             THEN index[1]
             ELSE N
    IN  InsertedList(sourceList, items, index)
          = SubSeq(sourceList, 1, p) \o items \o SubSeq(sourceList, p + 1, N)

\* C8 witness: insertData([x], 0) has put x in front of a different item.
C8_Witness ==
  /\ last.op = "insertData"
  /\ last.frontInsert
  /\ Len(sourceList) = MaxLen
  /\ sourceList[1] # sourceList[2]

\* C9: insertData([x], 0) on a buffer of length N yields length N + 1, and
\* deleteData(0, 1) immediately after returns [x] and restores the buffer.
C9_RoundTrip ==
  [][ /\ (last'.op = "insertData" /\ last'.frontInsert)
         => /\ Len(sourceList') = Len(sourceList) + 1
            /\ Tail(sourceList') = sourceList
      /\ (last.op = "insertData" /\ last.frontInsert
            /\ last'.op = "deleteData" /\ DeleteData(0, <<1>>))
         => /\ last'.returned = << <<Head(sourceList)>> >>
            /\ sourceList' = Tail(sourceList) ]_vars

\* C10: renderItem(data, index) for a logical index inside the window calls
\* renderHandler exactly once, on the slot at window position
\* index - floor(scrollOffset / itemHeight), with data and the logical index.
C10_RenderItemBinds ==
  [][ last'.op = "renderItem" =>
        \A data \in Data, index \in ItemIndexes :
          ( /\ RenderItem(data, index)
            /\ WindowStart <= index
            /\ index < WindowStart + Len(slots) )
          => /\ slots' = slots
             /\ last'.calls =
                  <<[node  |-> <<index - WindowStart + RUNWAY_COUNT>>,
                     data  |-> data,
                     index |-> index]>> ]_vars

\* C11: after the render pass that ends updateData or deleteData, every slot
\* whose window data index (startIndex + i) lies outside [0, N) is unbound:
\* it carries no tag and renderHandler was not invoked for it.
C11_SurplusUnbound ==
  (last.op \in {"updateData", "deleteData"} /\ ~last.threw) =>
    \A k \in 1 .. Len(slots) :
      (WindowStart + k - 1 < 0 \/ WindowStart + k - 1 >= Len(sourceList))
      => /\ slots[k].tag = << >>
         /\ \A j \in 1 .. Len(last.calls) :
              last.calls[j].node # <<k - 1 + RUNWAY_COUNT>>

\* C12: after dispose() completes, the slot pool is empty and the data
\* buffer is cleared, whatever data and slots existed before.
C12_DisposeClears ==
  last.op = "dispose" => (slots = << >> /\ sourceList = << >>)

\* C13: after invoke() followed by dispose(), the listeners are detached:
\* the scroll signal that follows dispose() triggers no render pass, and the
\* click that follows it emits no click event.
C13_Detached ==
  [][ last.op = "dispose" =>
        /\ ~(last'.op = "scroll" /\ last'.rendered)
        /\ last'.op # "click" ]_vars

\* C14: no view whose itemHeight is <= 0 exists after construction, so none
\* ever processes a render pass, a scroll or a resize.
C14_PositiveItemHeight ==
  options.itemHeight <= 0 =>
    (~last.rendered /\ last.op \notin {"scroll", "onResize"})

\* C15: when the viewport has grown since the pool was sized, the next
\* onResize / doResize grows the pool by the deficit, so that the pool holds
\* at least ceil(viewportHeight / itemHeight) + overscanCount slots when its
\* render pass runs, whatever ran between the growth and the resize.
C15_GrowsOnResize ==
  (last.op = "onResize" /\ Len(slots) > 0) => Len(slots) >= VisibleCount

\* the scroll offset lies within [0, max(0, N * itemHeight - viewportHeight)]
ScrollWithinExtent ==
  /\ 0 <= scrollTop
  /\ scrollTop <= Max(0, Len(sourceList) * options.itemHeight - clientHeight)

\* C16: the scroll offset lies within
\* [0, max(0, N * itemHeight - viewportHeight)] after every public operation;
\* in particular a deleteData or an updateData that completes from a state
\* where it does leaves it there.
C16_ScrollWithinExtent ==
  [][ ( /\ ScrollWithinExtent
        /\ last'.op \in {"deleteData", "updateData"}
        /\ ~last'.threw )
      => ScrollWithinExtent' ]_vars

\* the calls named in steps are: one change of the buffer, then one
\* _stretchList, then one _renderList (other calls may lie between)
StretchBetween(steps) ==
  LET At(names) == {i \in 1 .. Len(steps) : steps[i] \in names}
  IN  /\ Cardinality(At({"splice", "push"})) = 1
      /\ Cardinality(At({"_stretchList"})) = 1
      /\ Cardinality(At({"_renderList"})) = 1
      /\ \A i \in At({"splice", "push"}), j \in At({"_stretchList"}),
            k \in At({"_renderList"}) : i < j /\ j < k

\* C17: in every insertData, deleteData and updateData call _stretchList
\* runs after the buffer has changed and before the call's _renderList: the
\* runway is stretched to the new length even when the render pass raises;
\* a scroll signal runs at most one render pass and never stretches: it
\* leaves the runway's transform as it found it.
C17_StretchOrder ==
  /\ last.op \in Mutations =>
        /\ StretchBetween(last.steps)
        /\ runway.y = <<Len(sourceList) * options.itemHeight
                          - runway.clientHeight>>
  /\ last.op = "scroll" =>
        /\ runway.y = last.runwayY
        /\ last.steps \in {<< >>, <<"_renderList">>}

C17_Witness ==
  /\ last.op = "insertData"
  /\ last.threw
  /\ Len(sourceList) = MaxLen
  /\ runway.y = <<MaxLen * options.itemHeight - runway.clientHeight>>

\* C18: insertData, deleteData, renderItem and the scroll signal leave the
\* slot pool as it is: they create no node and remove none, and the number
\* of slots after is the number they found.
C18_PoolUnchanged ==
  last.op \in {"insertData", "deleteData", "renderItem", "scroll"} =>
    /\ Len(slots) = last.pool
    /\ last.created = 0
    /\ last.removed = 0

C18_Witness ==
  /\ last.op = "deleteData"
  /\ Len(sourceList) = 0
  /\ Len(slots) = 2
  /\ VisibleCount = 1

\* C19: renderItem hands renderHandler a slot only: never the runway
\* (child 0), never a node that does not exist.
C19_OnlySlots ==
  last.op = "renderItem" =>
    \A j \in 1 .. Len(last.calls) :
      /\ last.calls[j].node # << >>
      /\ last.calls[j].node[1] >= RUNWAY_COUNT

====
